---- MODULE Spec2Model ----
(***************************************************************************)
(* A model of app.py, the XML editorial validator: the numbered-sequence   *)
(* extractor, the answer-key extractor, the issue detector, the            *)
(* question/option extractor, the option validator, the report formatter   *)
(* and the "Run Validation" handler with its temporary file.               *)
(*                                                                         *)
(* Text is a sequence of one-character strings, so that the regular        *)
(* expressions of the program are modelled by what they match, character   *)
(* by character.  An optional integer (int or None) is a sequence of       *)
(* length at most one: None is << >> and the integer n is << n >>.         *)
(***************************************************************************)
EXTENDS Integers, Sequences, FiniteSets, TLC

VARIABLES
    pc,               \* position of the run / of the function under check
    numbers,          \* detect_issues, build_sequence_report: the numbers argument
    tag,              \* build_sequence_report: the tag argument
    issues,           \* the dict returned by detect_issues
    lines,            \* the lines joined by build_sequence_report
    option_blocks,    \* validate_options: option_blocks of the question record
    extracted,        \* validate_options: the label -> content dict, in insertion order
    opt_issues,       \* validate_options: the issues list of the question record
    uploaded,         \* the uploaded document
    tmp_file,         \* the temporary file: "none", "empty", "written", "removed"
    remove_calls,     \* how often os.remove(tmp_path) was called
    failure,          \* the exception that leaves the handler, "none" if none
    q_numbers,        \* handler: numbers of the Question elements
    seq_report,       \* handler: the three sequence reports
    questions_data,   \* handler: the records of extract_questions_with_options
    option_report     \* handler: the report of validate_options

vars == << pc, numbers, tag, issues, lines, option_blocks, extracted, opt_issues,
           uploaded, tmp_file, remove_calls, failure, q_numbers, seq_report,
           questions_data, option_report >>

detVars == << numbers, tag, issues, lines >>
optVars == << option_blocks, extracted, opt_issues >>
runVars == << uploaded, tmp_file, remove_calls, failure, q_numbers, seq_report,
              questions_data, option_report >>

(***************************************************************************)
(* Bounds of the model.                                                    *)
(***************************************************************************)
MaxLen == 4        \* longest numbers list given to detect_issues
MaxNum == 5        \* largest number in such a list
MaxErrs == 2       \* longest sequence_errors list given to build_sequence_report
MaxBlocks == 3     \* most option blocks of one question record
MaxElems == 3      \* most elements below the root of an uploaded document

(***************************************************************************)
(* Generic helpers.                                                        *)
(***************************************************************************)
None == << >>
Some(n) == << n >>

Range(s) == { s[i] : i \in 1..Len(s) }

SeqsUpTo(S, n) == UNION { [1..k -> S] : k \in 0..n }

RECURSIVE SortedInts(_)
\* sorted(S) for a finite set of integers
SortedInts(S) ==
    IF S = {} THEN << >>
    ELSE LET m == CHOOSE x \in S : \A y \in S : x <= y
         IN  << m >> \o SortedInts(S \ {m})

MaxOf(s) == CHOOSE x \in Range(s) : \A y \in Range(s) : y <= x

Count(s, x) == Cardinality({ i \in 1..Len(s) : s[i] = x })

RECURSIVE Flatten(_)
Flatten(ss) == IF ss = << >> THEN << >> ELSE Head(ss) \o Flatten(Tail(ss))

(***************************************************************************)
(* detect_issues                                                           *)
(***************************************************************************)
NoIssues == [missing |-> << >>, duplicates |-> << >>, sequence_errors |-> << >>]

\* valid = [n for n in numbers if isinstance(n, int)]
ValidOf(nums) == Flatten(nums)

\* a detector whose expected range starts at 0: list(range(max(valid) + 1))
MissingFromZero(valid) ==
    IF valid # << >>
    THEN SortedInts((0..MaxOf(valid)) \ Range(valid))
    ELSE << >>

\* if valid: expected = list(range(1, max(valid) + 1));
\*           issues["missing"] = sorted(set(expected) - set(valid))
MissingOf(valid) ==
    IF valid # << >>
    THEN SortedInts((1..MaxOf(valid)) \ Range(valid))
    ELSE << >>

\* sorted({x for x in valid if valid.count(x) > 1})
DuplicatesOf(valid) == SortedInts({ x \in Range(valid) : Count(valid, x) > 1 })

\* a detector that reports only forward gaps, not repeats or steps back
GapsOnly(valid) ==
    SelectSeq([ i \in 1..(Len(valid) - 1) |-> << valid[i], valid[i + 1] >> ],
              LAMBDA pr : pr[2] > pr[1] + 1)

RECURSIVE SequenceErrorsFrom(_, _)
\* for i in range(len(valid) - 1): if valid[i+1] != valid[i] + 1: append
SequenceErrorsFrom(valid, i) ==
    IF i > Len(valid) - 1 THEN << >>
    ELSE (IF valid[i + 1] # valid[i] + 1
          THEN << << valid[i], valid[i + 1] >> >>
          ELSE << >>) \o SequenceErrorsFrom(valid, i + 1)

SequenceErrorsOf(valid) == SequenceErrorsFrom(valid, 1)

detect_issues(nums) ==
    LET valid == ValidOf(nums)
    IN  [missing         |-> MissingOf(valid),
         duplicates      |-> DuplicatesOf(valid),
         sequence_errors |-> SequenceErrorsOf(valid)]

(***************************************************************************)
(* build_sequence_report.  A line is a record: its kind, the tag it names  *)
(* and the numbers it prints.                                              *)
(***************************************************************************)
Line(kind, t, nums) == [kind |-> kind, tag |-> t, nums |-> nums]

\* len([n for n in numbers if n is not None])
TotalNumbered(nums) == Len(Flatten(nums))

\* if issues["missing"]: lines.append(...)
MissingLines(t, iss) ==
    IF iss.missing # << >> THEN << Line("missing", t, iss.missing) >> ELSE << >>

\* if issues["duplicates"]: lines.append(...)
DuplicateLines(t, iss) ==
    IF iss.duplicates # << >> THEN << Line("duplicates", t, iss.duplicates) >> ELSE << >>

\* for prev, curr in issues["sequence_errors"]: lines.append(...)
SequenceLines(t, iss) ==
    [ i \in 1..Len(iss.sequence_errors) |-> Line("sequence", t, iss.sequence_errors[i]) ]

\* an all-clear test that looks at the missing numbers only
AllClearOnMissing(t, iss) ==
    IF iss.missing = << >> THEN << Line("allclear", t, << >>) >> ELSE << >>

\* if not any(issues.values()): lines.append(all clear)
AllClearLines(t, iss) ==
    IF ~ (iss.missing # << >> \/ iss.duplicates # << >> \/ iss.sequence_errors # << >>)
    THEN << Line("allclear", t, << >>) >>
    ELSE << >>

build_sequence_report(t, nums, iss) ==
    << Line("header", t, << >>), Line("total", t, << TotalNumbered(nums) >>) >>
        \o MissingLines(t, iss) \o DuplicateLines(t, iss)
        \o SequenceLines(t, iss) \o AllClearLines(t, iss)

Tags == { "Question", "Explanations", "Answer" }

(***************************************************************************)
(* Text and the regular expressions of validate_options.                   *)
(***************************************************************************)
Lower == << "a", "b", "c", "d", "e", "f", "g", "h", "i", "j", "k", "l", "m",
            "n", "o", "p", "q", "r", "s", "t", "u", "v", "w", "x", "y", "z" >>

LowerSet == Range(Lower)

\* the labels validate_options asks for: ['a','b','c','d']
OptionLabels == << "a", "b", "c", "d" >>

\* \s, for the characters of the model's texts
IsSpace(c) == c \in { " ", "\t", "\n" }

RECURSIVE JoinWithSpace(_)
\* " ".join(option_blocks)
JoinWithSpace(blocks) ==
    IF blocks = << >> THEN << >>
    ELSE IF Len(blocks) = 1 THEN blocks[1]
    ELSE blocks[1] \o << " " >> \o JoinWithSpace(Tail(blocks))

\* .replace('\n',' ').replace('\t',' ')
CollapseLines(s) == [ i \in 1..Len(s) |-> IF s[i] \in { "\n", "\t" } THEN " " ELSE s[i] ]

FullText(blocks) == CollapseLines(JoinWithSpace(blocks))

\* \([a-z]\) matches at position i
IsMarkerAt(s, i) ==
    /\ i + 2 <= Len(s)
    /\ s[i] = "("
    /\ s[i + 1] \in LowerSet
    /\ s[i + 2] = ")"

RECURSIVE SkipSpaces(_, _)
\* where a greedy \s* starting at i ends
SkipSpaces(s, i) ==
    IF i <= Len(s) /\ IsSpace(s[i]) THEN SkipSpaces(s, i + 1) ELSE i

\* (?=\([a-z]\)|$) at position r: a marker, the end, or the newline that ends s
LookaheadOk(s, r) ==
    \/ IsMarkerAt(s, r)
    \/ r = Len(s) + 1
    \/ (r = Len(s) /\ s[r] = "\n")

\* \s*(?=...) from q: the greedy \s* gives back spaces until the lookahead holds
TailEnds(s, q) == { r \in q..SkipSpaces(s, q) : LookaheadOk(s, r) }

RECURSIVE ContentEnd(_, _)
\* (.*?) from p: the least q >= p from which \s*(?=\([a-z]\)|$) matches
ContentEnd(s, q) ==
    IF TailEnds(s, q) # {} \/ q > Len(s) THEN q ELSE ContentEnd(s, q + 1)

\* the match of \(([a-z])\)\s*(.*?)\s*(?=\([a-z]\)|$) that starts at marker i
MatchAt(s, i) ==
    LET p == SkipSpaces(s, i + 3)
        q == ContentEnd(s, p)
        ends == TailEnds(s, q)
    IN  [label   |-> s[i + 1],
         content |-> SubSeq(s, p, q - 1),
         end     |-> CHOOSE r \in ends : \A x \in ends : x <= r]

RECURSIVE FindAllFrom(_, _)
\* pattern.findall(full): the non-overlapping matches, left to right
FindAllFrom(s, i) ==
    IF i > Len(s) THEN << >>
    ELSE IF IsMarkerAt(s, i)
         THEN LET m == MatchAt(s, i)
              IN  << [label |-> m.label, content |-> m.content] >> \o FindAllFrom(s, m.end)
         ELSE FindAllFrom(s, i + 1)

FindAll(s) == FindAllFrom(s, 1)

RECURSIVE FindLabelsFrom(_, _)
\* re.findall(r"\(([a-z])\)", full)
FindLabelsFrom(s, i) ==
    IF i > Len(s) THEN << >>
    ELSE IF IsMarkerAt(s, i)
         THEN << s[i + 1] >> \o FindLabelsFrom(s, i + 3)
         ELSE FindLabelsFrom(s, i + 1)

FindLabels(s) == FindLabelsFrom(s, 1)

RECURSIVE LStrip(_)
LStrip(s) == IF s # << >> /\ IsSpace(Head(s)) THEN LStrip(Tail(s)) ELSE s

RECURSIVE RStrip(_)
RStrip(s) ==
    IF s # << >> /\ IsSpace(s[Len(s)]) THEN RStrip(SubSeq(s, 1, Len(s) - 1)) ELSE s

\* str.strip()
Strip(s) == RStrip(LStrip(s))

\* position of a lower-case letter in the alphabet
LetterIndex(c) == CHOOSE i \in 1..Len(Lower) : Lower[i] = c

RECURSIVE SortedLabels(_)
\* sorted(S) for a set of lower-case letters
SortedLabels(S) ==
    IF S = {} THEN << >>
    ELSE LET m == CHOOSE x \in S : \A y \in S : LetterIndex(x) <= LetterIndex(y)
         IN  << m >> \o SortedLabels(S \ {m})

(***************************************************************************)
(* A dict is the sequence of its items, in insertion order.                *)
(***************************************************************************)
Keys(d) == { d[i].key : i \in 1..Len(d) }

Lookup(d, k) == LET i == CHOOSE j \in 1..Len(d) : d[j].key = k IN d[i].value

\* a store that keeps the value already held by the key (dict.setdefault)
DictSetDefault(d, k, v) ==
    IF k \in Keys(d) THEN d ELSE Append(d, [key |-> k, value |-> v])

\* d[k] = v: a new key goes last, a key already held keeps its place
DictSet(d, k, v) ==
    IF k \in Keys(d)
    THEN [ i \in 1..Len(d) |-> IF d[i].key = k THEN [key |-> k, value |-> v] ELSE d[i] ]
    ELSE Append(d, [key |-> k, value |-> v])

(***************************************************************************)
(* validate_options, for one question record.  An issue is a record: its   *)
(* kind, the labels it names and the content it quotes.                    *)
(***************************************************************************)
Issue(kind, labels, content) == [kind |-> kind, labels |-> labels, content |-> content]

RECURSIVE ExtractFrom(_, _)
\* for label, content in matches:
\*     if label in ['a','b','c','d']: extracted[label] = content.strip()
ExtractFrom(matches, d) ==
    IF matches = << >> THEN d
    ELSE LET m == Head(matches)
         IN  ExtractFrom(Tail(matches),
                         IF m.label \in Range(OptionLabels)
                         THEN DictSet(d, m.label, Strip(m.content))
                         ELSE d)

Extracted(full) == ExtractFrom(FindAll(full), << >>)

IsInvalidLabel(lbl) == lbl \notin Range(OptionLabels)

\* invalid = [lbl for lbl in all_labels if lbl not in ['a','b','c','d']]
\* if invalid: issues.append("Invalid option labels: " + sorted(set(invalid)))
InvalidIssues(full) ==
    LET invalid == SelectSeq(FindLabels(full), IsInvalidLabel)
    IN  IF invalid # << >>
        THEN << Issue("invalid", SortedLabels(Range(invalid)), << >>) >>
        ELSE << >>

\* a check that also counts an option with empty content as missing
MissingOrEmpty(ext) ==
    LET absent(o) == o \notin Keys(ext) \/ Lookup(ext, o) = << >>
        missing == SelectSeq(OptionLabels, absent)
    IN  IF missing # << >> THEN << Issue("missing", missing, << >>) >> ELSE << >>

\* missing = [o for o in ['a','b','c','d'] if o not in extracted]
\* if missing: issues.append("Missing options: " + missing)
MissingIssues(ext) ==
    LET absent(o) == o \notin Keys(ext)
        missing == SelectSeq(OptionLabels, absent)
    IN  IF missing # << >> THEN << Issue("missing", missing, << >>) >> ELSE << >>

\* for label, content in extracted.items():
\*     if not content.strip(): issues.append("Option {label} is empty")
EmptyIssues(ext) ==
    LET blank(item) == Strip(item.value) = << >>
        empties == SelectSeq(ext, blank)
    IN  [ i \in 1..Len(empties) |-> Issue("empty", << empties[i].key >>, << >>) ]

RECURSIVE DuplicateIssuesCitingLatest(_, _)
\* a check whose seen dict is updated on every item, so it cites the latest label
DuplicateIssuesCitingLatest(items, seen) ==
    IF items = << >> THEN << >>
    ELSE LET it == Head(items)
         IN  (IF it.value \in Keys(seen)
              THEN << Issue("duplicate", << Lookup(seen, it.value), it.key >>, it.value) >>
              ELSE << >>)
             \o DuplicateIssuesCitingLatest(Tail(items), DictSet(seen, it.value, it.key))

RECURSIVE DuplicateIssuesFrom(_, _)
\* seen = {}
\* for label, content in extracted.items():
\*     if content in seen: issues.append("Duplicate content in {seen[content]} and {label}")
\*     else: seen[content] = label
DuplicateIssuesFrom(items, seen) ==
    IF items = << >> THEN << >>
    ELSE LET it == Head(items)
         IN  IF it.value \in Keys(seen)
             THEN << Issue("duplicate", << Lookup(seen, it.value), it.key >>, it.value) >>
                      \o DuplicateIssuesFrom(Tail(items), seen)
             ELSE DuplicateIssuesFrom(Tail(items), DictSet(seen, it.value, it.key))

\* the issues list of one question record
OptionIssues(blocks) ==
    LET full == FullText(blocks)
        ext == Extracted(full)
    IN  InvalidIssues(full) \o MissingIssues(ext) \o EmptyIssues(ext)
            \o DuplicateIssuesFrom(ext, << >>)

RECURSIVE ReportLinesOf(_)
\* for qno, qtext, option_blocks in questions_data:
\*     if issues: report_lines.append("Question {qno} issues: ...")
ReportLinesOf(qdata) ==
    IF qdata = << >> THEN << >>
    ELSE LET iss == OptionIssues(Head(qdata).options)
         IN  (IF iss # << >> THEN << [qno |-> Head(qdata).qno, issues |-> iss] >> ELSE << >>)
             \o ReportLinesOf(Tail(qdata))

\* "\n".join(report_lines) if report_lines else "No option issues found."
validate_options(qdata) ==
    LET report_lines == ReportLinesOf(qdata)
    IN  [no_issues |-> report_lines = << >>, blocks |-> report_lines]

(***************************************************************************)
(* The option blocks the model draws from.                                 *)
(***************************************************************************)
Opt(l, content) == << "(", l, ")", " " >> \o content

BlockTexts ==
    { Opt("a", << "X" >>),
      Opt("a", << "Y" >>),
      Opt("b", << "X" >>),
      Opt("b", << "Y" >>),
      << "(", "b", ")" >>,
      Opt("c", << "X" >>) \o << " " >> \o Opt("d", << "X" >>),
      << "(", "c", ")", "\t", "Y", "\n", "(", "d", ")", " ", "Z", " " >>,
      Opt("e", << "Z" >>),
      << "Y" >>,
      Opt("a", << "P" >>) \o << " " >> \o Opt("b", << "L" >>) \o << " " >>
          \o Opt("c", << "P" >>) \o << " " >> \o Opt("d", << "R" >>) }

(***************************************************************************)
(* The parsed document: the elements that root.iter() yields, in document  *)
(* order.  An element has a namespace ("" for none), a local name and its  *)
(* text (elem.text; << >> when it is None).                                *)
(***************************************************************************)
Elem(ns, local, text) == [ns |-> ns, local |-> local, text |-> text]

RootElem == Elem("", "Root", << >>)

\* root.iter(): the root, then its descendants in document order
Iter(doc) == << RootElem >> \o doc.elems

\* etree.QName(elem.tag).localname == tag_name
HasLocalName(e, tag_name) == e.local = tag_name

\* elem.tag == name, with ElementTree's tag "{namespace}local"
HasTag(e, name) == e.ns = "" /\ e.local = name

Digits == << "0", "1", "2", "3", "4", "5", "6", "7", "8", "9" >>

IsDigit(c) == c \in Range(Digits)

DigitValue(c) == (CHOOSE i \in 1..Len(Digits) : Digits[i] = c) - 1

RECURSIVE DigitsEnd(_, _)
\* where a greedy \d+ starting at i ends
DigitsEnd(s, i) == IF i <= Len(s) /\ IsDigit(s[i]) THEN DigitsEnd(s, i + 1) ELSE i

RECURSIVE ToInt(_)
\* int(digits)
ToInt(ds) ==
    IF ds = << >> THEN 0 ELSE 10 * ToInt(SubSeq(ds, 1, Len(ds) - 1)) + DigitValue(ds[Len(ds)])

\* [\.\s\t\u200B]
IsSeparator(c) == c = "." \/ IsSpace(c) \/ c = "ZWSP"

\* re.match(r"(\d+)[\.\s\t\u200B]+", text): int(match.group(1)) if match else None
LeadingNumber(text) ==
    LET e == DigitsEnd(text, 1)
    IN  IF e > 1 /\ e <= Len(text) /\ IsSeparator(text[e])
        THEN Some(ToInt(SubSeq(text, 1, e - 1)))
        ELSE None

\* extract_numbered_elements(root, tag_name)[1]
extract_numbered_elements(doc, tag_name) ==
    LET named(e) == HasLocalName(e, tag_name)
        found == SelectSeq(Iter(doc), named)
    IN  [ i \in 1..Len(found) |-> LeadingNumber(Strip(found[i].text)) ]

RECURSIVE AnswerNumbersFrom(_, _)
\* re.findall(r"(\d+)\.\s*\(([a-eA-E])\)", text), the numbers of the matches
AnswerNumbersFrom(s, i) ==
    IF i > Len(s) THEN << >>
    ELSE IF ~ IsDigit(s[i]) THEN AnswerNumbersFrom(s, i + 1)
    ELSE LET e == DigitsEnd(s, i)
             p == SkipSpaces(s, e + 1)
             hit == /\ e <= Len(s) /\ s[e] = "."
                    /\ p + 2 <= Len(s)
                    /\ s[p] = "("
                    /\ s[p + 1] \in { "a", "b", "c", "d", "e", "A", "B", "C", "D", "E" }
                    /\ s[p + 2] = ")"
         IN  IF hit
             THEN << Some(ToInt(SubSeq(s, i, e - 1))) >> \o AnswerNumbersFrom(s, p + 3)
             ELSE AnswerNumbersFrom(s, e)

\* extract_answer_keys(root)[1]
extract_answer_keys(doc) ==
    LET named(e) == HasLocalName(e, "Answer")
        found == SelectSeq(Iter(doc), named)
    IN  Flatten([ i \in 1..Len(found) |-> AnswerNumbersFrom(Strip(found[i].text), 1) ])

(***************************************************************************)
(* extract_questions_with_options                                          *)
(***************************************************************************)
Record(qno, qtext, options) == [qno |-> qno, qtext |-> qtext, options |-> options]

RECURSIVE IndexOfDot(_, _)
IndexOfDot(s, i) == IF i > Len(s) \/ s[i] = "." THEN i ELSE IndexOfDot(s, i + 1)

\* current_question.split('.')[0].strip() if '.' in current_question else "?"
QnoOf(qtext) ==
    LET d == IndexOfDot(qtext, 1)
    IN  IF d <= Len(qtext) THEN Strip(SubSeq(qtext, 1, d - 1)) ELSE << "?" >>

\* if current_question and current_options: questions_data.append(...)
Flush(cur) ==
    IF cur.question # None /\ cur.question[1] # << >> /\ cur.options # << >>
    THEN << Record(cur.qno, cur.question[1], cur.options) >>
    ELSE << >>

\* elem.tag == "Question"
IsQuestionTag(e) == HasTag(e, "Question")

\* elem.tag == "Option-2"
IsOptionTag(e) == HasTag(e, "Option-2")

RECURSIVE Traverse(_, _, _)
\* for elem in root.iter(): ...; then the final flush
Traverse(elems, data, cur) ==
    IF elems = << >> THEN data \o Flush(cur)
    ELSE LET e == Head(elems)
         IN  IF IsQuestionTag(e)
             THEN Traverse(Tail(elems), data \o Flush(cur),
                           [question |-> Some(Strip(e.text)),
                            qno      |-> QnoOf(Strip(e.text)),
                            options  |-> << >>])
             ELSE IF IsOptionTag(e)
             THEN Traverse(Tail(elems), data,
                           [cur EXCEPT !.options = Append(@, Strip(e.text))])
             ELSE Traverse(Tail(elems), data, cur)

extract_questions_with_options(doc) ==
    Traverse(Iter(doc), << >>, [question |-> None, qno |-> None, options |-> << >>])

(***************************************************************************)
(* The uploaded documents the model draws from.                            *)
(***************************************************************************)
T_Q1 == << "1", ".", " ", "Q" >>
T_Q2 == << "2", ".", " ", "Q" >>
T_Ans == << "1", ".", " ", "(", "a", ")", " ", "2", ".", "(", "B", ")" >>
T_Exp == << "1", ".", " ", "E" >>
T_OptA == Opt("a", << "X" >>)
T_OptBCD == Opt("b", << "Y" >>) \o << " " >> \o Opt("c", << "Z" >>) \o << " " >>
                \o Opt("d", << "W" >>)

Elements ==
    { Elem("", "Question", T_Q1),
      Elem("", "Question", T_Q2),
      Elem("", "Question", << >>),
      Elem("urn:x", "Question", T_Q1),
      Elem("", "Option-2", T_OptA),
      Elem("", "Option-2", T_OptBCD),
      Elem("urn:x", "Option-2", T_OptA),
      Elem("", "Option-2", << >>),
      Elem("", "Answer", T_Ans),
      Elem("", "Explanations", T_Exp) }

Uploads ==
    { [well_formed |-> TRUE, elems |-> es] : es \in SeqsUpTo(Elements, MaxElems) }
        \cup { [well_formed |-> FALSE, elems |-> << >>] }

(***************************************************************************)
(* Idle values of the variables a specification does not use.              *)
(***************************************************************************)
DetIdle ==
    /\ numbers = << >>
    /\ tag = "Question"
    /\ issues = NoIssues
    /\ lines = << >>

OptIdle ==
    /\ option_blocks = << >>
    /\ extracted = << >>
    /\ opt_issues = << >>

RunIdle ==
    /\ uploaded = [well_formed |-> TRUE, elems |-> << >>]
    /\ tmp_file = "none"
    /\ remove_calls = 0
    /\ failure = "none"
    /\ q_numbers = << >>
    /\ seq_report = << >>
    /\ questions_data = << >>
    /\ option_report = << >>

(***************************************************************************)
(* SpecDetect: detect_issues on every list of optional integers within     *)
(* the bounds, followed by the report of its result.                       *)
(***************************************************************************)
OptInts == { None } \cup { Some(n) : n \in (-1)..MaxNum }

InitDetect ==
    /\ pc = "start"
    /\ numbers \in SeqsUpTo(OptInts, MaxLen)
    /\ tag = "Question"
    /\ issues = NoIssues
    /\ lines = << >>
    /\ OptIdle
    /\ RunIdle

DetectIssues ==
    /\ pc = "start"
    /\ issues' = detect_issues(numbers)
    /\ pc' = "detected"
    /\ UNCHANGED << numbers, tag, lines, optVars, runVars >>

BuildSequenceReport ==
    /\ pc = "detected"
    /\ \E t \in Tags :
        /\ tag' = t
        /\ lines' = build_sequence_report(t, numbers, issues)
    /\ pc' = "reported"
    /\ UNCHANGED << numbers, issues, optVars, runVars >>

NextDetect == DetectIssues \/ BuildSequenceReport

SpecDetect == InitDetect /\ [][NextDetect]_vars

(***************************************************************************)
(* SpecReport: build_sequence_report on every issue set within the bounds, *)
(* whether or not detect_issues can produce it.                            *)
(***************************************************************************)
SortedSubsets(n) == { SortedInts(S) : S \in SUBSET (1..n) }

InitReport ==
    /\ pc = "detected"
    /\ numbers \in { << >>, << None >>, << Some(1), None, Some(2) >> }
    /\ tag = "Question"
    /\ \E m \in SortedSubsets(MaxErrs), d \in SortedSubsets(MaxErrs),
          e \in SeqsUpTo((1..MaxErrs) \X (1..MaxErrs), MaxErrs) :
            issues = [missing |-> m, duplicates |-> d, sequence_errors |-> e]
    /\ lines = << >>
    /\ OptIdle
    /\ RunIdle

NextReport == BuildSequenceReport

SpecReport == InitReport /\ [][NextReport]_vars

(***************************************************************************)
(* Spec: one run of the "Run Validation" handler on an uploaded document.  *)
(***************************************************************************)
Init ==
    /\ pc = "idle"
    /\ uploaded \in Uploads
    /\ tmp_file = "none"
    /\ remove_calls = 0
    /\ failure = "none"
    /\ q_numbers = << >>
    /\ seq_report = << >>
    /\ questions_data = << >>
    /\ option_report = << >>
    /\ DetIdle
    /\ OptIdle

\* with tempfile.NamedTemporaryFile(delete=False, suffix=".xml") as tmp:
CreateTemp ==
    /\ pc = "idle"
    /\ tmp_file' = "empty"
    /\ pc' = "write"
    /\ UNCHANGED << uploaded, remove_calls, failure, q_numbers, seq_report,
                    questions_data, option_report, detVars, optVars >>

\* tmp.write(uploaded.read()); tmp_path = tmp.name -- before the try statement
WriteTemp ==
    /\ pc = "write"
    /\ \E ok \in BOOLEAN :
        IF ok
        THEN /\ tmp_file' = "written"
             /\ pc' = "parse"
             /\ UNCHANGED failure
        ELSE /\ failure' = "tmp.write: OSError"
             /\ pc' = "done"
             /\ UNCHANGED tmp_file
    /\ UNCHANGED << uploaded, remove_calls, q_numbers, seq_report,
                    questions_data, option_report, detVars, optVars >>

\* tree = etree.parse(tmp_path); root = tree.getroot()
Parse ==
    /\ pc = "parse"
    /\ IF uploaded.well_formed
       THEN pc' = "sequences" /\ UNCHANGED failure
       ELSE pc' = "finally" /\ failure' = "etree.parse: XMLSyntaxError"
    /\ UNCHANGED << uploaded, tmp_file, remove_calls, q_numbers, seq_report,
                    questions_data, option_report, detVars, optVars >>

\* Part 1: sequences
Sequences ==
    /\ pc = "sequences"
    /\ LET q == extract_numbered_elements(uploaded, "Question")
           e == extract_numbered_elements(uploaded, "Explanations")
           a == extract_answer_keys(uploaded)
       IN  /\ q_numbers' = q
           /\ seq_report' = << build_sequence_report("Question", q, detect_issues(q)),
                               build_sequence_report("Explanations", e, detect_issues(e)),
                               build_sequence_report("Answer", a, detect_issues(a)) >>
    /\ pc' = "options"
    /\ UNCHANGED << uploaded, tmp_file, remove_calls, failure,
                    questions_data, option_report, detVars, optVars >>

\* Part 2: options
Options ==
    /\ pc = "options"
    /\ questions_data' = extract_questions_with_options(uploaded)
    /\ option_report' = validate_options(extract_questions_with_options(uploaded))
    /\ pc' = "output"
    /\ UNCHANGED << uploaded, tmp_file, remove_calls, failure, q_numbers,
                    seq_report, detVars, optVars >>

\* Output and download button: the streamlit calls return or raise
Output ==
    /\ pc = "output"
    /\ \E ok \in BOOLEAN :
        failure' = IF ok THEN "none" ELSE "streamlit: Exception"
    /\ pc' = "finally"
    /\ UNCHANGED << uploaded, tmp_file, remove_calls, q_numbers, seq_report,
                    questions_data, option_report, detVars, optVars >>

\* a handler that removes the file as the last statement of the try body
RemoveAtEndOfTry ==
    /\ pc = "finally"
    /\ IF failure = "none"
       THEN /\ remove_calls' = remove_calls + 1
            /\ \E ok \in BOOLEAN : tmp_file' = IF ok THEN "removed" ELSE tmp_file
       ELSE UNCHANGED << remove_calls, tmp_file >>
    /\ pc' = "done"
    /\ UNCHANGED << uploaded, failure, q_numbers, seq_report,
                    questions_data, option_report, detVars, optVars >>

\* finally: try: os.remove(tmp_path) / except: pass
Finally ==
    /\ pc = "finally"
    /\ remove_calls' = remove_calls + 1
    /\ \E ok \in BOOLEAN : tmp_file' = IF ok THEN "removed" ELSE tmp_file
    /\ pc' = "done"
    /\ UNCHANGED << uploaded, failure, q_numbers, seq_report,
                    questions_data, option_report, detVars, optVars >>

Next == CreateTemp \/ WriteTemp \/ Parse \/ Sequences \/ Options \/ Output \/ Finally

Spec == Init /\ [][Next]_vars

(***************************************************************************)
(* SpecOptions: validate_options on one question record, for every list of *)
(* option blocks within the bounds.                                        *)
(***************************************************************************)
InitOptions ==
    /\ pc = "start"
    /\ option_blocks \in SeqsUpTo(BlockTexts, MaxBlocks)
    /\ extracted = << >>
    /\ opt_issues = << >>
    /\ DetIdle
    /\ RunIdle

ValidateOptions ==
    /\ pc = "start"
    /\ extracted' = Extracted(FullText(option_blocks))
    /\ opt_issues' = OptionIssues(option_blocks)
    /\ pc' = "validated"
    /\ UNCHANGED << option_blocks, detVars, runVars >>

NextOptions == ValidateOptions

SpecOptions == InitOptions /\ [][NextOptions]_vars

(***************************************************************************)
(* Properties of detect_issues (SpecDetect).                               *)
(***************************************************************************)
IsPresent(n) == n # None

\* the present values of a list of optional integers, in order
Present(nums) ==
    LET s == SelectSeq(nums, IsPresent)
    IN  [ i \in 1..Len(s) |-> s[i][1] ]

StrictlyAscending(s) == \A i \in 1..(Len(s) - 1) : s[i] < s[i + 1]

AdjacentPairs(p) == [ i \in 1..(Len(p) - 1) |-> << p[i], p[i + 1] >> ]

NotConsecutive(pr) == pr[2] # pr[1] + 1

OneToN(p) == \A i \in 1..Len(p) : p[i] = i

\* C1: detect_issues drops the absent entries and returns missing = the sorted
\* set of integers of 1..max(present) not in the list, duplicates = the sorted,
\* deduplicated values occurring more than once, sequence_errors = the adjacent
\* pairs of the filtered list whose second is not the first plus one, one per
\* violating position in encounter order.
C1_DetectIssuesContract ==
    pc # "start" =>
        LET p == Present(numbers)
        IN  /\ StrictlyAscending(issues.missing)
            /\ Range(issues.missing)
                 = { k \in 1..MaxNum : /\ \E x \in Range(p) : k <= x
                                       /\ k \notin Range(p) }
            /\ StrictlyAscending(issues.duplicates)
            /\ Range(issues.duplicates)
                 = { x \in Range(p) : \E i, j \in 1..Len(p) : i # j /\ p[i] = x /\ p[j] = x }
            /\ issues.sequence_errors = SelectSeq(AdjacentPairs(p), NotConsecutive)

\* detect_issues([1,3,3,5]) gives missing [2,4], duplicates [3] and
\* sequence_errors [(1,3),(3,3),(3,5)]
C1_Witness ==
    /\ pc = "detected"
    /\ numbers = << Some(1), Some(3), Some(3), Some(5) >>
    /\ issues = [missing |-> << 2, 4 >>, duplicates |-> << 3 >>,
                 sequence_errors |-> << << 1, 3 >>, << 3, 3 >>, << 3, 5 >> >>]

\* C2: on a list whose present values are 1,2,...,n in that order (n >= 0,
\* absent entries anywhere, the empty and the all-absent list included)
\* detect_issues returns missing, duplicates and sequence_errors all empty.
C2_ContiguousRunIsClean ==
    (pc # "start" /\ OneToN(Present(numbers))) => issues = NoIssues

\* the run 1,2,3 with an absent entry inside is clean
C2_Witness ==
    /\ pc = "detected"
    /\ numbers = << Some(1), None, Some(2), Some(3) >>
    /\ issues = NoIssues

\* C10: on a list of optional non-negative integers detect_issues returns
\* three empty lists only if the present values are exactly 1,2,...,max in
\* that order, or there are none.
C10_CleanOnlyIfOneBasedRun ==
    (/\ pc # "start"
     /\ \A x \in Range(Present(numbers)) : x >= 0
     /\ issues = NoIssues)
        => OneToN(Present(numbers))

(***************************************************************************)
(* Properties of build_sequence_report (SpecReport).                       *)
(***************************************************************************)
KindsOf(ls) == [ i \in 1..Len(ls) |-> ls[i].kind ]

Bit(b) == IF b THEN 1 ELSE 0

\* C6: the all-clear line is emitted if and only if missing, duplicates and
\* sequence_errors are all empty; otherwise the header and the count of
\* present numbers are followed by the missing line, the duplicates line and
\* one line per sequence-error pair, each only when its list is non-empty and
\* always in that order.
C6_ReportLines ==
    pc = "reported" =>
        LET m == issues.missing # << >>
            d == issues.duplicates # << >>
            n == Len(issues.sequence_errors)
            clear == ~m /\ ~d /\ n = 0
            at_m == 3
            at_d == 3 + Bit(m)
            at_e == 3 + Bit(m) + Bit(d)
        IN  /\ ("allclear" \in Range(KindsOf(lines))) <=> clear
            /\ Len(lines) = 2 + Bit(m) + Bit(d) + n + Bit(clear)
            /\ \A i \in 1..Len(lines) : lines[i].tag = tag
            /\ lines[1].kind = "header"
            /\ lines[2] = Line("total", tag, << Len(Present(numbers)) >>)
            /\ m => lines[at_m] = Line("missing", tag, issues.missing)
            /\ d => lines[at_d] = Line("duplicates", tag, issues.duplicates)
            /\ \A i \in 1..n : lines[at_e + i - 1] = Line("sequence", tag, issues.sequence_errors[i])
            /\ clear => lines[3].kind = "allclear"

\* a report with no missing line, a duplicates line and two sequence lines
C6_Witness ==
    /\ pc = "reported"
    /\ issues.missing = << >>
    /\ issues.duplicates = << 1, 2 >>
    /\ Len(issues.sequence_errors) = 2
    /\ KindsOf(lines) = << "header", "total", "duplicates", "sequence", "sequence" >>

(***************************************************************************)
(* Properties of validate_options (SpecOptions).                           *)
(***************************************************************************)
\* some option block holds the three characters "(", l, ")" in a row
HasMarker(blocks, l) ==
    \E b \in 1..Len(blocks) : \E i \in 1..(Len(blocks[b]) - 2) :
        blocks[b][i] = "(" /\ blocks[b][i + 1] = l /\ blocks[b][i + 2] = ")"

IssuesOfKind(kind) == LET is_kind(x) == x.kind = kind IN SelectSeq(opt_issues, is_kind)

\* the contents of the spans of the concatenated option text that carry label l
SpanContents(blocks, l) ==
    LET has_label(m) == m.label = l
        spans == SelectSeq(FindAll(FullText(blocks)), has_label)
    IN  [ i \in 1..Len(spans) |-> Strip(spans[i].content) ]

\* C4: 'Missing options' names exactly the labels among a, b, c, d that have
\* no '(label)' span in the option text, in a-d order, and 'Invalid option
\* labels' names every label outside a-d that occurs as a '(label)' marker.
C4_MissingAndInvalidLabels ==
    pc = "validated" =>
        LET unmarked(l) == ~ HasMarker(option_blocks, l)
            miss == SelectSeq(OptionLabels, unmarked)
            inv == { l \in LowerSet \ Range(OptionLabels) : HasMarker(option_blocks, l) }
        IN  /\ IssuesOfKind("missing")
                 = (IF miss # << >> THEN << Issue("missing", miss, << >>) >> ELSE << >>)
            /\ IF inv = {}
               THEN IssuesOfKind("invalid") = << >>
               ELSE /\ Len(IssuesOfKind("invalid")) = 1
                    /\ Range(IssuesOfKind("invalid")[1].labels) = inv

\* '(a) X (b) Y (e) Z' gives invalid label e and missing options c and d
C4_Witness ==
    /\ pc = "validated"
    /\ option_blocks = << Opt("a", << "X" >>), Opt("b", << "Y" >>), Opt("e", << "Z" >>) >>
    /\ opt_issues = << Issue("invalid", << "e" >>, << >>),
                       Issue("missing", << "c", "d" >>, << >>) >>

\* C5 as stated: every two distinct labels of the map with identical content
\* get a duplicate-content issue, once per colliding pair, first-seen label
\* first, also when three or four labels share the content.
C5_OncePerCollidingPair ==
    pc = "validated" =>
        \A i, j \in 1..Len(extracted) :
            (i < j /\ extracted[i].value = extracted[j].value)
                => Cardinality({ n \in 1..Len(opt_issues) :
                        /\ opt_issues[n].kind = "duplicate"
                        /\ opt_issues[n].labels = << extracted[i].key, extracted[j].key >> }) = 1

\* C5, amended: one duplicate-content issue for each label of the map whose
\* content equals that of a label seen earlier, citing the first-seen label
\* with that content first and the later label second, in map order; so two
\* labels sharing a content give one issue for the pair, and n labels sharing
\* it give n-1 issues that all cite the first of them.
C5_EachLaterLabelAgainstFirstSeen ==
    pc = "validated" =>
        LET n == Len(extracted)
            repeats(j) == \E i \in 1..(j - 1) : extracted[i].value = extracted[j].value
            later == SelectSeq([ j \in 1..n |-> j ], repeats)
            first(j) == CHOOSE i \in 1..j :
                            /\ extracted[i].value = extracted[j].value
                            /\ \A k \in 1..(i - 1) : extracted[k].value # extracted[j].value
        IN  /\ IssuesOfKind("duplicate")
                 = [ m \in 1..Len(later) |->
                       Issue("duplicate",
                             << extracted[first(later[m])].key, extracted[later[m]].key >>,
                             extracted[later[m]].value) ]
            /\ option_blocks = << Opt("a", << "P" >>) \o << " " >> \o Opt("b", << "L" >>)
                                  \o << " " >> \o Opt("c", << "P" >>) \o << " " >>
                                  \o Opt("d", << "R" >>) >>
                 => opt_issues = << Issue("duplicate", << "a", "c" >>, << "P" >>) >>

\* a, b, c and d all hold X: the issues cite a and b, a and c, a and d
C5_Witness ==
    /\ pc = "validated"
    /\ option_blocks = << Opt("a", << "X" >>), Opt("b", << "X" >>),
                          Opt("c", << "X" >>) \o << " " >> \o Opt("d", << "X" >>) >>
    /\ opt_issues = << Issue("duplicate", << "a", "b" >>, << "X" >>),
                       Issue("duplicate", << "a", "c" >>, << "X" >>),
                       Issue("duplicate", << "a", "d" >>, << "X" >>) >>

\* C7 as stated: the map holds, for each label, the content of the first span
\* with that label.
C7_FirstOccurrenceWins ==
    pc = "validated" =>
        \A i \in 1..Len(extracted) :
            extracted[i].value = SpanContents(option_blocks, extracted[i].key)[1]

\* C7, amended: the map holds, for each label of a-d with a span, the content
\* of the last span with that label (a later span overwrites the content and
\* the label keeps the place of its first span), and the empty-content check
\* runs on that last content.
C7_LastOccurrenceWins ==
    pc = "validated" =>
        LET spans == FindAll(FullText(option_blocks))
            firstAt(l) == CHOOSE i \in 1..Len(spans) :
                              spans[i].label = l /\ \A k \in 1..(i - 1) : spans[k].label # l
            blank(item) == item.value = << >>
            empties == SelectSeq(extracted, blank)
        IN  /\ Keys(extracted) = { spans[i].label : i \in 1..Len(spans) } \cap Range(OptionLabels)
            /\ \A i \in 1..Len(extracted) :
                 LET c == SpanContents(option_blocks, extracted[i].key)
                 IN  extracted[i].value = c[Len(c)]
            /\ \A i, j \in 1..Len(extracted) :
                 i < j => firstAt(extracted[i].key) < firstAt(extracted[j].key)
            /\ IssuesOfKind("empty")
                 = [ i \in 1..Len(empties) |-> Issue("empty", << empties[i].key >>, << >>) ]

\* '(b) X' followed by '(b)': the map holds the empty content of the second
\* span and option b is reported empty
C7_Witness ==
    /\ pc = "validated"
    /\ option_blocks = << Opt("b", << "X" >>), << "(", "b", ")" >> >>
    /\ extracted = << [key |-> "b", value |-> << >>] >>
    /\ Issue("empty", << "b" >>, << >>) \in Range(opt_issues)

(***************************************************************************)
(* Properties of the handler (Spec).                                       *)
(***************************************************************************)
BodyFailures == { "none", "etree.parse: XMLSyntaxError", "streamlit: Exception" }

\* C3: once the temporary file holds the uploaded bytes, the run ends, whether
\* parsing and validation complete or raise, with os.remove having been called
\* on the file, and a failure of that removal never leaves the handler.
C3_TempFileReleased ==
    (pc = "done" /\ tmp_file \in { "written", "removed" }) =>
        /\ remove_calls = 1
        /\ failure \in BodyFailures
        /\ ~ uploaded.well_formed => failure = "etree.parse: XMLSyntaxError"

\* a malformed document: the parse error leaves the handler after a removal
\* that itself failed
C3_Witness ==
    /\ pc = "done"
    /\ ~ uploaded.well_formed
    /\ failure = "etree.parse: XMLSyntaxError"
    /\ remove_calls = 1
    /\ tmp_file = "written"

\* the Option-2 texts that follow element i of the traversal before the next
\* Question element or the end of the document
OptionsAfter(it, i) ==
    LET owned(j) == /\ j > i
                    /\ IsOptionTag(it[j])
                    /\ \A k \in (i + 1)..(j - 1) : ~ IsQuestionTag(it[k])
        idx == SelectSeq([ j \in 1..Len(it) |-> j ], owned)
    IN  [ n \in 1..Len(idx) |-> Strip(it[idx[n]].text) ]

\* C8: extract_questions_with_options returns exactly one record, in document
\* order, for each Question element followed by at least one Option-2 element
\* before the next Question element or the end of the document, with those
\* Option-2 texts as its option blocks; a Question element is dropped only
\* when it has no option block.
C8_OneRecordPerQuestionWithOptions ==
    pc = "output" =>
        LET it == Iter(uploaded)
            kept(i) == IsQuestionTag(it[i]) /\ OptionsAfter(it, i) # << >>
            idx == SelectSeq([ i \in 1..Len(it) |-> i ], kept)
        IN  [ n \in 1..Len(questions_data) |->
                << questions_data[n].qtext, questions_data[n].options >> ]
              = [ n \in 1..Len(idx) |-> << Strip(it[idx[n]].text), OptionsAfter(it, idx[n]) >> ]

\* the document with every element moved to no namespace
WithoutNamespaces(doc) ==
    [doc EXCEPT !.elems = [ i \in 1..Len(doc.elems) |-> [doc.elems[i] EXCEPT !.ns = ""] ]]

\* C9: elements are recognised by local name in both halves of the pipeline:
\* the elements counted as Question by extract_numbered_elements are the ones
\* extract_questions_with_options starts a record at, and a namespaced
\* document gets the option checks of the same document without namespaces.
C9_NamespaceAgnosticOptions ==
    pc = "output" =>
        /\ Len(q_numbers) = Cardinality({ i \in 1..Len(Iter(uploaded)) :
                                            IsQuestionTag(Iter(uploaded)[i]) })
        /\ questions_data = extract_questions_with_options(WithoutNamespaces(uploaded))
        /\ option_report
             = validate_options(extract_questions_with_options(WithoutNamespaces(uploaded)))

====
